---- MODULE Spec2Model ----
(***************************************************************************)
(* Model of src/src/createAsyncThunk.ts: the orchestrators made by         *)
(* createAsyncThunk(typePrefix, payloadCreator, options), the invocations  *)
(* of their actionCreator and unwrapResult.  The synchronous prefix of the *)
(* async body is one action (Invoke); every promise reaction is a job on   *)
(* the host's FIFO microtask queue; abort calls and settlements of the     *)
(* payloadCreator's promise interleave freely between jobs.  Spec follows  *)
(* one invocation at a time, with every input it can meet; FullSpec adds   *)
(* a configured serializeError, a sink that throws on the final action and *)
(* handle.unwrap(); ManySpec has two invocations in flight, of one or of   *)
(* two orchestrators.                                                      *)
(***************************************************************************)
EXTENDS Integers, Sequences, FiniteSets, TLC

\* ------------------------------------------------------------------ bounds
\* how many abort() calls are made on one handle
MaxAborts == 2

\* the strings the idGenerator supplies, one per invocation
RequestIds == {"r1", "r2"}

\* the arguments actionCreator is called with
Args == {"a1", "a2"}

\* the orchestrators of the process: createAsyncThunk is called once for
\* each, with the same options
Thunks == {"t1", "t2"}

\* ------------------------------------------------------- JavaScript values
Undefined == [t |-> "undefined"]
Null == [t |-> "null"]
True == [t |-> "boolean", v |-> "true"]
False == [t |-> "boolean", v |-> "false"]
Str(s) == [t |-> "string", v |-> s]
Num(s) == [t |-> "number", v |-> s]
Obj(props) == [t |-> "object", class |-> "Object", props |-> props]

\* class RejectWithValue { name = 'RejectWithValue'; message = 'Rejected'; payload }
RejectWithValue(payload) ==
    [t |-> "object", class |-> "RejectWithValue",
     props |-> [name |-> Str("RejectWithValue"), message |-> Str("Rejected"),
                payload |-> payload]]

InstanceOfRejectWithValue(value) ==
    value.t = "object" /\ value.class = "RejectWithValue"

\* JavaScript truthiness (!!value) of the values above
Truthy(value) ==
    CASE value.t = "undefined" -> FALSE
      [] value.t = "null" -> FALSE
      [] value.t = "boolean" -> value.v = "true"
      [] value.t = "string" -> value.v # ""
      [] value.t = "number" -> value.v # "0"
      [] OTHER -> TRUE

\* String(value) for the primitives
StringOf(value) ==
    CASE value.t = "undefined" -> "undefined"
      [] value.t = "null" -> "null"
      [] value.t \in {"boolean", "string", "number"} -> value.v
      [] OTHER -> "[object Object]"

\* value[property]; reading a property of a string or number gives undefined
\* (callers guard null and undefined with !!value)
GetProp(value, property) ==
    IF value.t = "object" /\ property \in DOMAIN value.props
    THEN value.props[property]
    ELSE Undefined

commonProperties == {"name", "message", "stack", "code"}

\* A SerializedError is a function from the properties present to strings.
miniSerializeError(value) ==
    IF value.t = "object"
    THEN [property \in {q \in commonProperties :
                          GetProp(value, q).t = "string"}
             |-> GetProp(value, property).v]
    ELSE [message |-> StringOf(value)]

\* ---------------------------------------------------------- input domains
\* what payloadCreator may return or resolve to
ReturnedValues == {Str("ok"), RejectWithValue(Num("7"))}

\* what the condition callback or payloadCreator may throw or reject with
ThrownValues ==
    { Obj([name |-> Str("Error"), message |-> Str("boom"), code |-> Num("1")]),
      Obj([name |-> Str("AbortError"), message |-> Str("net")]),
      Obj([name |-> Str("ConditionError"), message |-> Str("c")]),
      Null,
      RejectWithValue(Num("7")) }

\* what the sink throws when it fails on the pending action
SinkError == Obj([name |-> Str("Error"), message |-> Str("sink")])

\* abort(reason?: string)
Reasons == {Undefined, Str(""), Str("x")}

\* options.dispatchConditionRejection?: boolean
OptionalBooleans == {"undefined", "false", "true"}

\* results of options.condition: a returned value, or a thrown one
ConditionResults ==
    [kind : {"return"}, value : {True, False, Undefined}]
      \cup [kind : {"throw"}, value : ThrownValues]

\* results of calling payloadCreator: a synchronous throw, a value or settled
\* promise, or a promise that is still pending
CreatorResults ==
    [kind : {"threw"}, value : ThrownValues]
      \cup [kind : {"fulfilled"}, value : ReturnedValues]
      \cup [kind : {"rejected"}, value : ThrownValues]
      \cup {[kind |-> "pending", value |-> Undefined]}

NoPromise == [state |-> "none", value |-> Undefined]
Pending == [state |-> "pending", value |-> Undefined]
Fulfilled(value) == [state |-> "fulfilled", value |-> value]
Rejected(value) == [state |-> "rejected", value |-> value]

NoAction == [type |-> "none"]
NoHandle == [requestId |-> "none", arg |-> "none"]
NoResult == [kind |-> "none", value |-> Undefined]
NotAborted == [race |-> "unset", then |-> "unset"]

\* options.serializeError: absent, or error => error.message
Serializers == {"undefined", "message"}
NoCondition == [kind |-> "none", value |-> Undefined]

\* ------------------------------------------------------------------- state
VARIABLES
    options,          \* the options argument of createAsyncThunk
    hasAbortController, \* typeof AbortController !== 'undefined'
    sinkThrowsOnFinal, \* whether dispatch throws on a fulfilled or rejected action
    displayedWarning, \* per orchestrator: let displayedWarning
    notices,          \* how many times console.info printed the notice
    unwrapped,        \* per requestId: what handle.unwrap() settled with
    abortedAt,        \* per requestId: the promises' states when 'abort' fired
    sink,             \* the actions passed to dispatch, in order
    microtasks,       \* the host's FIFO queue of promise reaction jobs
    promise,          \* per requestId: the promise of the async body
    conditionResult,  \* per requestId: what options.condition did
    started,          \* per requestId: let started
    abortReason,      \* per requestId: let abortReason
    signal,           \* per requestId: abortController.signal
    abortedPromise,   \* per requestId: const abortedPromise
    creatorOutcome,   \* per requestId: how the payloadCreator call completed
    thenPromise,      \* per requestId: .then(result => ..) of the above
    racePromise,      \* per requestId: Promise.race([..])
    raceWinner,       \* per requestId: which reaction settled the race
    finalAction,      \* per requestId: let finalAction
    creatorCalls,     \* per requestId: calls of payloadCreator
    abortCalls,       \* per requestId: calls of abort on the handle
    generated,        \* the strings idGenerator returned, one per call
    thunkOf,          \* per requestId: the orchestrator that was invoked
    arg,              \* per requestId: the argument of actionCreator
    handle,           \* per requestId: requestId and arg on the returned promise
    thunkAPI,         \* per requestId: requestId and arg given to payloadCreator
    steps             \* per requestId: what the body did before its first await

vars == << options, hasAbortController, sinkThrowsOnFinal, unwrapped,
           displayedWarning, notices, abortedAt, sink, microtasks,
           promise, conditionResult, started, abortReason, signal,
           abortedPromise, creatorOutcome, thenPromise, racePromise,
           raceWinner, finalAction, creatorCalls, abortCalls, generated,
           thunkOf, arg, handle, thunkAPI, steps >>

\* what only the synchronous part of an invocation writes
invocationVars == << generated, thunkOf, arg, handle, thunkAPI, steps >>

\* ------------------------------------------------------ action constructors
fulfilled(result, requestId, a) ==
    [type |-> "fulfilled", payload |-> result,
     meta |-> [arg |-> a, requestId |-> requestId,
               requestStatus |-> "fulfilled"]]

\* faulty variant of pending: one requestId for all invocations
pendingWithSharedId(requestId, a) ==
    [type |-> "pending", payload |-> Undefined,
     meta |-> [arg |-> a, requestId |-> "r1",
               requestStatus |-> "pending"]]

pending(requestId, a) ==
    [type |-> "pending", payload |-> Undefined,
     meta |-> [arg |-> a, requestId |-> requestId,
               requestStatus |-> "pending"]]

\* faulty variant of IsAborted: the name of the error is not looked at
IsAbortedForAnyError(error) == Truthy(error)

IsAborted(error) ==
    Truthy(error) /\ GetProp(error, "name") = Str("AbortError")

IsCondition(error) ==
    Truthy(error) /\ GetProp(error, "name") = Str("ConditionError")

\* (options && options.serializeError) || miniSerializeError
serializeError(value) ==
    IF options.present /\ options.serializeError = "message"
    THEN GetProp(value, "message")
    ELSE miniSerializeError(value)

rejected(error, requestId, a) ==
    [type |-> "rejected",
     payload |-> IF InstanceOfRejectWithValue(error)
                 THEN error.props["payload"] ELSE Undefined,
     error |-> serializeError(IF Truthy(error) THEN error
                              ELSE Str("Rejected")),
     meta |-> [arg |-> a,
               requestId |-> requestId,
               rejectedWithValue |-> InstanceOfRejectWithValue(error),
               requestStatus |-> "rejected",
               aborted |-> IsAborted(error),
               condition |-> IsCondition(error)]]

\* the literal thrown when options.condition returns false
ConditionError ==
    Obj([name |-> Str("ConditionError"),
         message |-> Str("Aborted due to condition callback returning false.")])

\* faulty variant of AbortError: no default for a missing reason
AbortErrorWithoutDefault(reason) ==
    Obj([name |-> Str("AbortError"), message |-> reason])

\* the literal the abort listener rejects abortedPromise with
AbortError(reason) ==
    Obj([name |-> Str("AbortError"),
         message |-> IF Truthy(reason) THEN reason ELSE Str("Aborted")])

\* faulty variants of skipDispatch: one ignores the option, one suppresses
\* only on an explicit false
skipDispatchIgnoringOption(action) ==
    /\ options.present
    /\ action.type = "rejected"
    /\ action.meta.condition

skipDispatchOnExplicitFalse(action) ==
    /\ options.present
    /\ options.dispatchConditionRejection = "false"
    /\ action.type = "rejected"
    /\ action.meta.condition

skipDispatch(action) ==
    /\ options.present
    /\ options.dispatchConditionRejection # "true"
    /\ action.type = "rejected"
    /\ action.meta.condition

\* !!action.error: a SerializedError is an object; what a configured
\* serializeError returned is a value of its own
ErrorTruthy(action) ==
    /\ "error" \in DOMAIN action
    /\ IF "t" \in DOMAIN action.error THEN Truthy(action.error) ELSE TRUE

\* faulty variant of unwrapResult: a rejected action always throws its payload
unwrapResultThrowingPayload(action) ==
    IF action.type = "rejected"
    THEN [kind |-> "throw", value |-> action.payload]
    ELSE [kind |-> "return", value |-> action.payload]

unwrapResult(action) ==
    IF "rejectedWithValue" \in DOMAIN action.meta /\ action.meta.rejectedWithValue
    THEN [kind |-> "throw", value |-> action.payload]
    ELSE IF ErrorTruthy(action)
         THEN [kind |-> "throw", value |-> action.error]
         ELSE [kind |-> "return", value |-> action.payload]

Job(requestId, kind) == [requestId |-> requestId, job |-> kind]

\* -------------------------------------------------------------------- Init
\* the state after createAsyncThunk, for a choice of the normalizers the
\* options may name and of the behaviours of the sink on a final action
StateAfterCreate(serializers, sinkThrows) ==
    /\ options \in
         {[present |-> FALSE, condition |-> FALSE,
           dispatchConditionRejection |-> "undefined",
           serializeError |-> "undefined"]}
         \cup [present : {TRUE}, condition : BOOLEAN,
               dispatchConditionRejection : OptionalBooleans,
               serializeError : serializers]
    /\ hasAbortController \in BOOLEAN
    /\ sinkThrowsOnFinal \in sinkThrows
    /\ displayedWarning = [thunk \in Thunks |-> FALSE]
    /\ notices = 0
    /\ unwrapped = [r \in RequestIds |-> NoResult]
    /\ abortedAt = [r \in RequestIds |-> NotAborted]
    /\ sink = << >>
    /\ microtasks = << >>
    /\ promise = [r \in RequestIds |-> NoPromise]
    /\ conditionResult = [r \in RequestIds |-> NoCondition]
    /\ started = [r \in RequestIds |-> FALSE]
    /\ abortReason = [r \in RequestIds |-> Undefined]
    /\ signal = [r \in RequestIds |-> [aborted |-> FALSE]]
    /\ abortedPromise = [r \in RequestIds |-> NoPromise]
    /\ creatorOutcome = [r \in RequestIds |-> NoPromise]
    /\ thenPromise = [r \in RequestIds |-> NoPromise]
    /\ racePromise = [r \in RequestIds |-> NoPromise]
    /\ raceWinner = [r \in RequestIds |-> "none"]
    /\ finalAction = [r \in RequestIds |-> NoAction]
    /\ creatorCalls = [r \in RequestIds |-> 0]
    /\ abortCalls = [r \in RequestIds |-> 0]
    /\ generated = << >>
    /\ thunkOf = [r \in RequestIds |-> "none"]
    /\ arg = [r \in RequestIds |-> "none"]
    /\ handle = [r \in RequestIds |-> NoHandle]
    /\ thunkAPI = [r \in RequestIds |-> NoHandle]
    /\ steps = [r \in RequestIds |-> << >>]

\* the default normalizer and a sink that accepts every final action
Init == StateAfterCreate({"undefined"}, {FALSE})

\* ------------------------------------------------------------------ Invoke
\* faulty variant of ReturnFinal: a withheld action is not returned either
ReturnFinalOnlyDispatched(r, action, dispatched) ==
    /\ finalAction' = [finalAction EXCEPT ![r] = action]
    /\ sink' = IF skipDispatch(action) THEN dispatched
               ELSE Append(dispatched, action)
    /\ promise' = [promise EXCEPT ![r] =
                      IF skipDispatch(action) THEN Fulfilled(NoAction)
                      ELSE Fulfilled(action)]

\* the tail of the async body: skipDispatch, dispatch(finalAction), return
ReturnFinal(r, action, dispatched) ==
    /\ finalAction' = [finalAction EXCEPT ![r] = action]
    /\ sink' = IF skipDispatch(action) THEN dispatched
               ELSE Append(dispatched, action)
    /\ promise' = [promise EXCEPT ![r] =
                      IF sinkThrowsOnFinal /\ ~skipDispatch(action)
                      THEN Rejected(SinkError) ELSE Fulfilled(action)]

\* requestId r has not been generated yet
NotInvoked(r) == promise[r].state = "none"

\* const requestId = (options?.idGenerator ?? nanoid)(), and the requestId
\* and arg that Object.assign puts on the returned promise
Created(r, thunk, a) ==
    /\ NotInvoked(r)
    /\ generated' = Append(generated, r)
    /\ thunkOf' = [thunkOf EXCEPT ![r] = thunk]
    /\ arg' = [arg EXCEPT ![r] = a]
    /\ handle' = [handle EXCEPT ![r] = [requestId |-> r, arg |-> a]]

\* the steps of the try block up to started = true
ConditionStep == IF options.present /\ options.condition
                 THEN << "condition" >> ELSE << >>

\* the error the condition check leaves in the catch block, if any
ConditionThrows(cond) ==
    \/ cond.kind = "throw"
    \/ cond.kind = "return" /\ cond.value = False

ConditionThrown(cond) ==
    IF cond.kind = "throw" THEN cond.value ELSE ConditionError

\* faulty variant of InvokeNotStarted: the condition check is outside the try
InvokeNotStartedUncaught(r, thunk, a, cond) ==
    /\ Created(r, thunk, a)
    /\ options.present /\ options.condition
    /\ ConditionThrows(cond)
    /\ conditionResult' = [conditionResult EXCEPT ![r] = cond]
    /\ abortedPromise' = [abortedPromise EXCEPT ![r] = Pending]
    /\ steps' = [steps EXCEPT ![r] = ConditionStep]
    /\ promise' = [promise EXCEPT ![r] = Rejected(ConditionThrown(cond))]
    /\ UNCHANGED << thunkAPI, options, hasAbortController, sinkThrowsOnFinal,
                    unwrapped, displayedWarning, notices, abortedAt,
                    microtasks, sink, finalAction,
                    started, abortReason, signal, creatorOutcome, thenPromise,
                    racePromise, raceWinner, creatorCalls, abortCalls >>

\* actionCreator(arg)(dispatch, getState, extra) up to the first await:
\* the condition callback threw or returned false
InvokeNotStarted(r, thunk, a, cond) ==
    /\ Created(r, thunk, a)
    /\ options.present /\ options.condition
    /\ ConditionThrows(cond)
    /\ conditionResult' = [conditionResult EXCEPT ![r] = cond]
    /\ abortedPromise' = [abortedPromise EXCEPT ![r] = Pending]
    /\ steps' = [steps EXCEPT ![r] = ConditionStep]
    /\ ReturnFinal(r, rejected(ConditionThrown(cond), r, a), sink)
    /\ UNCHANGED << thunkAPI, options, hasAbortController, sinkThrowsOnFinal, unwrapped,
                    displayedWarning, notices, abortedAt, microtasks,
                    started, abortReason, signal, creatorOutcome, thenPromise,
                    racePromise, raceWinner, creatorCalls, abortCalls >>

\* the condition check passed (or there is none)
ConditionPasses(r, thunk, a, cond) ==
    /\ Created(r, thunk, a)
    /\ IF options.present /\ options.condition
       THEN /\ ~ConditionThrows(cond)
            /\ conditionResult' = [conditionResult EXCEPT ![r] = cond]
       ELSE /\ cond = [kind |-> "return", value |-> Undefined]
            /\ UNCHANGED conditionResult
    /\ abortedPromise' = [abortedPromise EXCEPT ![r] = Pending]
    /\ started' = [started EXCEPT ![r] = TRUE]

\* dispatch(pending(requestId, arg)) threw
InvokeSinkThrows(r, thunk, a, cond) ==
    /\ ConditionPasses(r, thunk, a, cond)
    /\ steps' = [steps EXCEPT ![r] = ConditionStep \o << "started", "pending" >>]
    /\ ReturnFinal(r, rejected(SinkError, r, a), Append(sink, pending(r, a)))
    /\ UNCHANGED << thunkAPI, options, hasAbortController, sinkThrowsOnFinal, unwrapped,
                    displayedWarning, notices, abortedAt, microtasks,
                    abortReason, signal, creatorOutcome, thenPromise,
                    racePromise, raceWinner, creatorCalls, abortCalls >>

\* payloadCreator threw synchronously
InvokeCreatorThrows(r, thunk, a, cond, creator) ==
    /\ ConditionPasses(r, thunk, a, cond)
    /\ creator.kind = "threw"
    /\ steps' = [steps EXCEPT ![r] =
                    ConditionStep \o << "started", "pending", "payloadCreator" >>]
    /\ thunkAPI' = [thunkAPI EXCEPT ![r] = [requestId |-> r, arg |-> a]]
    /\ creatorCalls' = [creatorCalls EXCEPT ![r] = @ + 1]
    /\ creatorOutcome' = [creatorOutcome EXCEPT ![r] =
                             [state |-> "threw", value |-> creator.value]]
    /\ ReturnFinal(r, rejected(creator.value, r, a), Append(sink, pending(r, a)))
    /\ UNCHANGED << options, hasAbortController, sinkThrowsOnFinal, unwrapped,
                    displayedWarning, notices, abortedAt, microtasks,
                    abortReason, signal, thenPromise, racePromise, raceWinner,
                    abortCalls >>

\* faulty variant of InvokeAwaits: payloadCreator is called before the
\* pending action is dispatched
InvokeAwaitsBeforePending(r, thunk, a, cond, creator) ==
    /\ ConditionPasses(r, thunk, a, cond)
    /\ creator.kind # "threw"
    /\ steps' = [steps EXCEPT ![r] =
                    ConditionStep \o << "started", "payloadCreator", "pending" >>]
    /\ thunkAPI' = [thunkAPI EXCEPT ![r] = [requestId |-> r, arg |-> a]]
    /\ creatorCalls' = [creatorCalls EXCEPT ![r] = @ + 1]
    /\ sink' = Append(sink, pending(r, a))
    /\ creatorOutcome' = [creatorOutcome EXCEPT ![r] =
                             [state |-> creator.kind, value |-> creator.value]]
    /\ thenPromise' = [thenPromise EXCEPT ![r] = Pending]
    /\ racePromise' = [racePromise EXCEPT ![r] = Pending]
    /\ promise' = [promise EXCEPT ![r] = Pending]
    /\ microtasks' = IF creator.kind = "pending" THEN microtasks
                     ELSE Append(microtasks, Job(r, "then"))
    /\ UNCHANGED << options, hasAbortController, sinkThrowsOnFinal, unwrapped,
                    displayedWarning, notices, abortedAt,
                    abortReason, signal, raceWinner, finalAction, abortCalls >>

\* payloadCreator returned: the body suspends at the await of Promise.race
InvokeAwaits(r, thunk, a, cond, creator) ==
    /\ ConditionPasses(r, thunk, a, cond)
    /\ creator.kind # "threw"
    /\ steps' = [steps EXCEPT ![r] =
                    ConditionStep \o << "started", "pending", "payloadCreator" >>]
    /\ thunkAPI' = [thunkAPI EXCEPT ![r] = [requestId |-> r, arg |-> a]]
    /\ creatorCalls' = [creatorCalls EXCEPT ![r] = @ + 1]
    /\ sink' = Append(sink, pending(r, a))
    /\ creatorOutcome' = [creatorOutcome EXCEPT ![r] =
                             [state |-> creator.kind, value |-> creator.value]]
    /\ thenPromise' = [thenPromise EXCEPT ![r] = Pending]
    /\ racePromise' = [racePromise EXCEPT ![r] = Pending]
    /\ promise' = [promise EXCEPT ![r] = Pending]
    /\ microtasks' = IF creator.kind = "pending" THEN microtasks
                     ELSE Append(microtasks, Job(r, "then"))
    /\ UNCHANGED << options, hasAbortController, sinkThrowsOnFinal, unwrapped,
                    displayedWarning, notices, abortedAt,
                    abortReason, signal, raceWinner, finalAction, abortCalls >>

\* an invocation whose condition callback and payloadCreator behave as one
\* of conds and one of creators
InvokeWith(r, thunk, a, conds, creators) ==
    \E cond \in conds :
        \/ InvokeNotStarted(r, thunk, a, cond)
        \/ InvokeSinkThrows(r, thunk, a, cond)
        \/ \E creator \in creators :
              \/ InvokeCreatorThrows(r, thunk, a, cond, creator)
              \/ InvokeAwaits(r, thunk, a, cond, creator)

Invoke(r, thunk, a) == InvokeWith(r, thunk, a, ConditionResults, CreatorResults)

\* ------------------------------------------------------------------- abort
\* AbortController.prototype.abort of the host: the first call sets
\* signal.aborted and runs the 'abort' listener, which rejects abortedPromise;
\* Promise.race, when it was reached, reacts to that in a later job
NativeAbort(r) ==
    /\ signal' = [signal EXCEPT ![r] = [aborted |-> TRUE]]
    /\ IF signal[r].aborted
       THEN UNCHANGED << abortedPromise, microtasks, abortedAt >>
       ELSE /\ abortedPromise' = [abortedPromise EXCEPT ![r] =
                                     Rejected(AbortError(abortReason'[r]))]
            /\ abortedAt' = [abortedAt EXCEPT ![r] =
                                [race |-> racePromise[r].state,
                                 then |-> thenPromise[r].state]]
            /\ microtasks' = IF racePromise[r].state = "none" THEN microtasks
                             ELSE Append(microtasks, Job(r, "raceAborted"))
    /\ UNCHANGED << displayedWarning, notices >>

\* abort() of the class used when the host has no AbortController, in a
\* build whose NODE_ENV is not 'production': its signal never changes and
\* its addEventListener registers nothing
\* faulty variant of FallbackAbort: the fallback class cancels like the
\* native one
FallbackAbortCancelling(r) == NativeAbort(r)

FallbackAbort(r) ==
    /\ IF displayedWarning[thunkOf[r]]
       THEN UNCHANGED << displayedWarning, notices >>
       ELSE /\ displayedWarning' = [displayedWarning EXCEPT ![thunkOf[r]] = TRUE]
            /\ notices' = notices + 1
    /\ UNCHANGED << signal, abortedPromise, microtasks, abortedAt >>

\* faulty variant of abort: the started guard is missing
abortWithoutStartedGuard(r, reason) ==
    /\ promise[r].state # "none"
    /\ abortCalls[r] < MaxAborts
    /\ abortCalls' = [abortCalls EXCEPT ![r] = @ + 1]
    /\ abortReason' = [abortReason EXCEPT ![r] = reason]
    /\ IF hasAbortController THEN NativeAbort(r) ELSE FallbackAbort(r)
    /\ UNCHANGED << invocationVars, options, hasAbortController, sinkThrowsOnFinal, unwrapped,
                    sink, promise,
                    conditionResult, started, creatorOutcome, thenPromise,
                    racePromise, raceWinner, finalAction, creatorCalls >>

\* handle.abort(reason)
abort(r, reason) ==
    /\ promise[r].state # "none"
    /\ abortCalls[r] < MaxAborts
    /\ abortCalls' = [abortCalls EXCEPT ![r] = @ + 1]
    /\ IF started[r]
       THEN /\ abortReason' = [abortReason EXCEPT ![r] = reason]
            /\ IF hasAbortController THEN NativeAbort(r) ELSE FallbackAbort(r)
       ELSE UNCHANGED << abortReason, signal, abortedPromise, microtasks,
                         displayedWarning, notices, abortedAt >>
    /\ UNCHANGED << invocationVars, options, hasAbortController, sinkThrowsOnFinal, unwrapped,
                    sink, promise,
                    conditionResult, started, creatorOutcome, thenPromise,
                    racePromise, raceWinner, finalAction, creatorCalls >>

\* ------------------------------------------------------- the payloadCreator
\* the promise payloadCreator returned settles
CreatorSettles(r, outcome) ==
    /\ creatorOutcome[r].state = "pending"
    /\ outcome.kind \in {"fulfilled", "rejected"}
    /\ creatorOutcome' = [creatorOutcome EXCEPT ![r] =
                             [state |-> outcome.kind, value |-> outcome.value]]
    /\ microtasks' = Append(microtasks, Job(r, "then"))
    /\ UNCHANGED << invocationVars, options, hasAbortController, sinkThrowsOnFinal, unwrapped,
                    displayedWarning, notices, abortedAt, sink,
                    promise, conditionResult, started, abortReason, signal,
                    abortedPromise, thenPromise, racePromise, raceWinner,
                    finalAction, creatorCalls, abortCalls >>

\* --------------------------------------------------------- microtask queue
\* the reaction .then(result => ..) of the payloadCreator's promise
ThenCallback(settled, r) ==
    IF settled.state = "rejected" THEN Rejected(settled.value)
    ELSE IF InstanceOfRejectWithValue(settled.value)
         THEN Fulfilled(rejected(settled.value, r, arg[r]))
         ELSE Fulfilled(fulfilled(settled.value, r, arg[r]))

\* faulty variant of RunThen: the callback settles the race in its own job
RunThenSettlingRace ==
    /\ microtasks # << >>
    /\ Head(microtasks).job = "then"
    /\ LET r == Head(microtasks).requestId IN
           /\ thenPromise' = [thenPromise EXCEPT ![r] =
                                 ThenCallback(creatorOutcome[r], r)]
           /\ IF racePromise[r].state # "pending"
              THEN /\ microtasks' = Tail(microtasks)
                   /\ UNCHANGED << racePromise, raceWinner >>
              ELSE /\ racePromise' = [racePromise EXCEPT ![r] =
                                         ThenCallback(creatorOutcome[r], r)]
                   /\ raceWinner' = [raceWinner EXCEPT ![r] = "creator"]
                   /\ microtasks' = Append(Tail(microtasks), Job(r, "await"))
    /\ UNCHANGED << invocationVars, options, hasAbortController,
                    sinkThrowsOnFinal, unwrapped, displayedWarning, notices,
                    abortedAt, sink, promise, conditionResult, started,
                    abortReason, signal, abortedPromise, creatorOutcome,
                    finalAction, creatorCalls, abortCalls >>

RunThen ==
    /\ microtasks # << >>
    /\ Head(microtasks).job = "then"
    /\ LET r == Head(microtasks).requestId IN
           /\ thenPromise' = [thenPromise EXCEPT ![r] =
                                 ThenCallback(creatorOutcome[r], r)]
           /\ microtasks' = Append(Tail(microtasks), Job(r, "raceThen"))
    /\ UNCHANGED << invocationVars, options, hasAbortController, sinkThrowsOnFinal, unwrapped,
                    displayedWarning, notices, abortedAt, sink,
                    promise, conditionResult, started, abortReason, signal,
                    abortedPromise, creatorOutcome, racePromise, raceWinner,
                    finalAction, creatorCalls, abortCalls >>

\* faulty variant of AlreadySettled: a settled promise settles again
AlreadySettledNever(p) == FALSE

\* a promise settles once: later resolve and reject calls are ignored
AlreadySettled(p) == p.state # "pending"

\* a reaction of Promise.race to one of its two inputs; the await of the
\* race resumes the body in a later job
RaceReacts(r, input, winner) ==
    IF AlreadySettled(racePromise[r])
    THEN /\ microtasks' = Tail(microtasks)
         /\ UNCHANGED << racePromise, raceWinner >>
    ELSE /\ racePromise' = [racePromise EXCEPT ![r] = input]
         /\ raceWinner' = [raceWinner EXCEPT ![r] = winner]
         /\ microtasks' = Append(Tail(microtasks), Job(r, "await"))

RunRaceThen ==
    /\ microtasks # << >>
    /\ Head(microtasks).job = "raceThen"
    /\ LET r == Head(microtasks).requestId IN
           RaceReacts(r, thenPromise[r], "creator")
    /\ UNCHANGED << invocationVars, options, hasAbortController, sinkThrowsOnFinal, unwrapped,
                    displayedWarning, notices, abortedAt, sink,
                    promise, conditionResult, started, abortReason, signal,
                    abortedPromise, creatorOutcome, thenPromise,
                    finalAction, creatorCalls, abortCalls >>

RunRaceAborted ==
    /\ microtasks # << >>
    /\ Head(microtasks).job = "raceAborted"
    /\ LET r == Head(microtasks).requestId IN
           RaceReacts(r, abortedPromise[r], "abort")
    /\ UNCHANGED << invocationVars, options, hasAbortController, sinkThrowsOnFinal, unwrapped,
                    displayedWarning, notices, abortedAt, sink,
                    promise, conditionResult, started, abortReason, signal,
                    abortedPromise, creatorOutcome, thenPromise,
                    finalAction, creatorCalls, abortCalls >>

\* the body resumes after the await: the race's value, or the catch block
RunAwait ==
    /\ microtasks # << >>
    /\ Head(microtasks).job = "await"
    /\ LET r == Head(microtasks).requestId IN
           ReturnFinal(r, IF racePromise[r].state = "fulfilled"
                          THEN racePromise[r].value
                          ELSE rejected(racePromise[r].value, r, arg[r]),
                       sink)
    /\ microtasks' = Tail(microtasks)
    /\ UNCHANGED << invocationVars, options, hasAbortController, sinkThrowsOnFinal, unwrapped,
                    displayedWarning, notices, abortedAt,
                    conditionResult, started, abortReason, signal,
                    abortedPromise, creatorOutcome, thenPromise, racePromise,
                    raceWinner, creatorCalls, abortCalls >>

RunMicrotask == RunThen \/ RunRaceThen \/ RunRaceAborted \/ RunAwait

\* ------------------------------------------------------------------ unwrap
\* handle.unwrap(): promise.then(unwrapResult), observed once it has settled
unwrap(r) ==
    /\ promise[r].state \in {"fulfilled", "rejected"}
    /\ unwrapped[r] = NoResult
    /\ unwrapped' = [unwrapped EXCEPT ![r] =
                        IF promise[r].state = "fulfilled"
                        THEN unwrapResult(promise[r].value)
                        ELSE [kind |-> "throw", value |-> promise[r].value]]
    /\ UNCHANGED << invocationVars, options, hasAbortController,
                    sinkThrowsOnFinal, displayedWarning, notices, abortedAt,
                    sink, microtasks, promise, conditionResult, started,
                    abortReason, signal, abortedPromise, creatorOutcome,
                    thenPromise, racePromise, raceWinner, finalAction,
                    creatorCalls, abortCalls >>

\* -------------------------------------------------------------------- Next
\* no invocation has been made yet
Alone == \A q \in RequestIds : NotInvoked(q)

\* one invocation, of the first orchestrator, is followed at a time
Next ==
    \/ \E r \in RequestIds, a \in Args : Alone /\ Invoke(r, "t1", a)
    \/ \E r \in RequestIds, reason \in Reasons : abort(r, reason)
    \/ \E r \in RequestIds, outcome \in CreatorResults : CreatorSettles(r, outcome)
    \/ RunThen
    \/ RunRaceThen
    \/ RunRaceAborted
    \/ RunAwait

Spec == Init /\ [][Next]_vars

\* the host runs every queued job
FairSpec == Spec /\ WF_vars(RunMicrotask)

\* every normalizer and every behaviour of the sink on a final action, with
\* the caller unwrapping the handle
FullInit == StateAfterCreate(Serializers, BOOLEAN)

FullNext ==
    \/ \E r \in RequestIds, a \in Args : Alone /\ Invoke(r, "t1", a)
    \/ \E r \in RequestIds, reason \in Reasons : abort(r, reason)
    \/ \E r \in RequestIds, outcome \in CreatorResults : CreatorSettles(r, outcome)
    \/ RunThen
    \/ RunRaceThen
    \/ RunRaceAborted
    \/ RunAwait
    \/ \E r \in RequestIds : unwrap(r)

FullSpec == FullInit /\ [][FullNext]_vars

\* several invocations in flight, of either orchestrator, with fewer
\* behaviours of the callbacks each and one abort call on each handle
Boom == Obj([name |-> Str("Error"), message |-> Str("boom"), code |-> Num("1")])

ManyConditions == [kind : {"return"}, value : {Undefined, False}]

ManyCreators ==
    {[kind |-> "threw", value |-> Boom],
     [kind |-> "fulfilled", value |-> Str("ok")],
     [kind |-> "pending", value |-> Undefined]}

ManyOutcomes ==
    {[kind |-> "fulfilled", value |-> Str("ok")],
     [kind |-> "rejected", value |-> Boom]}

\* the generator returns a fresh string on each call
NextId(r) == r = IF generated = << >> THEN "r1" ELSE "r2"

ManyNext ==
    \/ \E r \in RequestIds, thunk \in Thunks, a \in Args :
          NextId(r) /\ InvokeWith(r, thunk, a, ManyConditions, ManyCreators)
    \/ \E r \in RequestIds : abortCalls[r] = 0 /\ abort(r, Undefined)
    \/ \E r \in RequestIds, outcome \in ManyOutcomes : CreatorSettles(r, outcome)
    \/ RunThen
    \/ RunRaceThen
    \/ RunRaceAborted
    \/ RunAwait

\* dispatchConditionRejection is left out of the options
ManyInit == Init /\ options.dispatchConditionRejection = "undefined"

ManySpec == ManyInit /\ [][ManyNext]_vars

\* =========================================================== properties
\* the actions of invocation r that reached the sink, in order
RECURSIVE SinkOfFrom(_, _)
SinkOfFrom(r, events) ==
    IF events = << >> THEN << >>
    ELSE IF Head(events).meta.requestId = r
         THEN << Head(events) >> \o SinkOfFrom(r, Tail(events))
         ELSE SinkOfFrom(r, Tail(events))

SinkOf(r) == SinkOfFrom(r, sink)

Settled(r) == promise[r].state = "fulfilled"

IsTerminal(action) == action.type \in {"fulfilled", "rejected"}

IsFailed(action) == action.type = "rejected"

ConditionSkipped(action) == IsFailed(action) /\ action.meta.condition

Positions(seq, Test(_)) == {i \in 1..Len(seq) : Test(seq[i])}

GateReturnedFalse(r) ==
    conditionResult[r] = [kind |-> "return", value |-> False]

\* the spec's suppressSkipDispatch is the negation of the option
\* dispatchConditionRejection
suppressSkipDispatch == options.dispatchConditionRejection # "true"

\* C1: with no condition configured, the sink holds for a settled invocation
\* exactly its pending action followed by exactly one terminal action, and
\* before that never more than a prefix of the two.
C1_StartedThenTerminal ==
    \A r \in RequestIds :
        ~options.condition =>
            /\ Len(SinkOf(r)) <= 2
            /\ Len(SinkOf(r)) >= 1 => SinkOf(r)[1] = pending(r, arg[r])
            /\ Len(SinkOf(r)) = 2 => IsTerminal(SinkOf(r)[2])
            /\ Settled(r) => Len(SinkOf(r)) = 2

C3_DefaultDispatchesSkip ==
    \A r \in RequestIds :
        (GateReturnedFalse(r) /\ options.dispatchConditionRejection = "undefined")
            => finalAction[r] \in {sink[i] : i \in 1..Len(sink)}

\* C3 amended: with a condition and dispatchConditionRejection left unset,
\* the rejected action of a skip is not dispatched: nothing of the invocation
\* reaches the sink, and the action is only the value of the handle's promise.
C3_DefaultSuppressesSkip ==
    \A r \in RequestIds :
        (GateReturnedFalse(r) /\ options.dispatchConditionRejection = "undefined")
            => /\ SinkOf(r) = << >>
               /\ ConditionSkipped(finalAction[r])
               /\ promise[r] = Fulfilled(finalAction[r])

C3_Witness ==
    \E r \in RequestIds :
        /\ GateReturnedFalse(r)
        /\ options.dispatchConditionRejection = "undefined"
        /\ Settled(r)

\* the message the abort listener gives for a reason
MessageFor(reason) == IF Truthy(reason) THEN reason.v ELSE "Aborted"

\* abort(reason) was just called, for the first time, on a started invocation
\* whose payloadCreator has not settled
FirstAbortWhilePending(r, reason) ==
    /\ started[r]
    /\ abortCalls[r] = 1
    /\ abortReason[r] = reason
    /\ creatorOutcome[r].state = "pending"

\* the invocation settled with the rejected action of an abort for reason
SettledAborted(r, reason) ==
    /\ Settled(r)
    /\ IsFailed(finalAction[r])
    /\ finalAction[r].meta.aborted
    /\ ~finalAction[r].meta.rejectedWithValue
    /\ ~finalAction[r].meta.condition
    /\ "message" \in DOMAIN finalAction[r].error
    /\ finalAction[r].error["message"] = MessageFor(reason)

\* C4 as stated: abort(reason) on a started invocation whose payloadCreator
\* has not settled leads to a rejected final action with aborted set,
\* rejectedWithValue and condition clear, and the reason (or 'Aborted') as
\* error.message, whether or not payloadCreator ever settles.
C4_AbortLeadsToAborted ==
    \A r \in RequestIds, reason \in Reasons :
        FirstAbortWhilePending(r, reason) ~> SettledAborted(r, reason)

\* C4 amended: the same, on a host that has an AbortController; the reason
\* is the one given to the first such call.
C4_NativeAbortLeadsToAborted ==
    \A r \in RequestIds, reason \in Reasons :
        (hasAbortController /\ FirstAbortWhilePending(r, reason))
            ~> SettledAborted(r, reason)

\* an abort with a reason won although payloadCreator never settled
C4_Witness ==
    \E r \in RequestIds :
        /\ hasAbortController
        /\ SettledAborted(r, Str("x"))
        /\ raceWinner[r] = "abort"
        /\ creatorOutcome[r].state = "pending"

\* C5: per invocation at most one pending and at most one terminal action
\* reach the sink, no action is in the sink twice, and once the invocation
\* has settled neither its final action nor its part of the sink changes
\* again, whatever abort calls and settlements follow.
C5_OneTerminalEvent ==
    /\ [](\A r \in RequestIds :
            /\ Cardinality(Positions(SinkOf(r), LAMBDA a : a.type = "pending")) <= 1
            /\ Cardinality(Positions(SinkOf(r), IsTerminal)) <= 1
            /\ Settled(r) => /\ IsTerminal(finalAction[r])
                             /\ Positions(SinkOf(r), IsTerminal) \subseteq
                                  Positions(SinkOf(r), LAMBDA a : a = finalAction[r]))
    /\ [][\A r \in RequestIds :
            Settled(r) => /\ finalAction'[r] = finalAction[r]
                          /\ promise'[r] = promise[r]
                          /\ SinkOf(r)' = SinkOf(r)]_vars

\* two aborts, the first won the race, payloadCreator settled afterwards and
\* every queued job has run
C5_Witness ==
    \E r \in RequestIds :
        /\ Settled(r)
        /\ raceWinner[r] = "abort"
        /\ abortCalls[r] = 2
        /\ thenPromise[r].state # "pending"
        /\ microtasks = << >>
        /\ Len(SinkOf(r)) = 2

\* C6: an abort call on an invocation that is not started changes nothing
\* but the count of calls (signal, sink, promises, queue and final action
\* stay as they are); signal.aborted never goes back to false, and it
\* becomes true only in an abort call on a started invocation.
C6_AbortBeforeStartIsNoOp ==
    [][\A r \in RequestIds :
          /\ signal[r].aborted => signal'[r].aborted
          /\ (~signal[r].aborted /\ signal'[r].aborted)
                => (started[r] /\ abortCalls'[r] = abortCalls[r] + 1)
          /\ (abortCalls'[r] # abortCalls[r] /\ ~started[r])
                => UNCHANGED << signal, abortReason, abortedPromise, sink,
                                microtasks, promise, finalAction, racePromise,
                                raceWinner, started, displayedWarning >>]_vars

\* abort was called on an invocation the condition kept from starting
C6_Witness ==
    \E r \in RequestIds :
        /\ abortCalls[r] > 0
        /\ ~started[r]
        /\ ~signal[r].aborted
        /\ Settled(r)

\* C7: every terminal action in the sink that is not a condition skip has
\* the pending action of the same requestId before it in the sink, also when
\* the condition callback threw.
C7_StartedBeforeTerminal ==
    \A i \in 1..Len(sink) :
        (IsTerminal(sink[i]) /\ ~ConditionSkipped(sink[i]))
            => \E j \in 1..(i - 1) :
                  sink[j] = pending(sink[i].meta.requestId, sink[i].meta.arg)

\* the payloadCreator call threw, or its promise rejected
CreatorRaised(r) == creatorOutcome[r].state \in {"threw", "rejected"}

\* an error object: an object that is not a RejectWithValue
IsErrorObject(value) ==
    value.t = "object" /\ ~InstanceOfRejectWithValue(value)

\* C8: when no abort won the race, a plain result v gives a fulfilled action
\* with payload v; a RejectWithValue of v gives a rejected action with
\* rejectedWithValue set, payload v, aborted and condition clear; a raised
\* error object e gives a rejected action with error = miniSerializeError(e)
\* and rejectedWithValue and aborted clear.
C8_OutcomeClassified ==
    \A r \in RequestIds :
        (Settled(r) /\ raceWinner[r] # "abort") =>
            /\ (creatorOutcome[r].state = "fulfilled"
                  /\ ~InstanceOfRejectWithValue(creatorOutcome[r].value))
                  => finalAction[r] = fulfilled(creatorOutcome[r].value, r, arg[r])
            /\ (creatorOutcome[r].state = "fulfilled"
                  /\ InstanceOfRejectWithValue(creatorOutcome[r].value))
                  => /\ IsFailed(finalAction[r])
                     /\ finalAction[r].meta.rejectedWithValue
                     /\ finalAction[r].payload
                          = creatorOutcome[r].value.props["payload"]
                     /\ ~finalAction[r].meta.aborted
                     /\ ~finalAction[r].meta.condition
            /\ (CreatorRaised(r) /\ IsErrorObject(creatorOutcome[r].value))
                  => /\ IsFailed(finalAction[r])
                     /\ finalAction[r].error
                          = miniSerializeError(creatorOutcome[r].value)
                     /\ ~finalAction[r].meta.rejectedWithValue
                     /\ ~finalAction[r].meta.aborted

\* C9: a rejected final action has aborted set only if an abort call on the
\* started invocation won the race; what payloadCreator raised never sets it.
C9_AbortedOnlyByAbort ==
    \A r \in RequestIds :
        (Settled(r) /\ IsFailed(finalAction[r]) /\ finalAction[r].meta.aborted)
            => /\ raceWinner[r] = "abort"
               /\ started[r]
               /\ abortCalls[r] > 0

\* C10: the final action has condition set exactly when the condition
\* callback returned false; when the callback threw or payloadCreator raised
\* a value, the rejected action has condition clear and is dispatched.
C10_OnlyFalseSkips ==
    \A r \in RequestIds :
        Settled(r) =>
            /\ ConditionSkipped(finalAction[r]) <=> GateReturnedFalse(r)
            /\ (conditionResult[r].kind = "throw" \/ CreatorRaised(r))
                  => /\ IsFailed(finalAction[r])
                     /\ ~finalAction[r].meta.condition
                     /\ finalAction[r] \in {sink[i] : i \in 1..Len(sink)}

\* the handle of r resolved to a terminal action and unwrap() was applied
Unwrapped(r) == Settled(r) /\ unwrapped[r] # NoResult

\* C11: unwrap of a fulfilled action returns its payload; unwrap of a
\* rejected action never returns: it throws the payload when
\* rejectedWithValue is set and the action's error otherwise, for every kind
\* of rejected action and every serializeError.
C11_UnwrapThrowsOnFailed ==
    \A r \in RequestIds :
        Unwrapped(r) =>
            unwrapped[r] =
                IF ~IsFailed(finalAction[r])
                THEN [kind |-> "return", value |-> finalAction[r].payload]
                ELSE IF finalAction[r].meta.rejectedWithValue
                     THEN [kind |-> "throw", value |-> finalAction[r].payload]
                     ELSE [kind |-> "throw", value |-> finalAction[r].error]

\* payloadCreator raised a value that is not a RejectWithValue, and no abort
\* won the race
UncaughtFailure(r) ==
    /\ CreatorRaised(r)
    /\ ~InstanceOfRejectWithValue(creatorOutcome[r].value)
    /\ raceWinner[r] # "abort"

\* C12 as stated: after an uncaught failure unwrap() throws the value that
\* payloadCreator raised.
C12_UnwrapRaisesOriginal ==
    \A r \in RequestIds :
        (Unwrapped(r) /\ UncaughtFailure(r))
            => unwrapped[r] = [kind |-> "throw",
                               value |-> creatorOutcome[r].value]

\* C12: after an uncaught failure, whatever unwrap() throws is the error
\* field of the rejected action, the output of the serializer, and the
\* action carries no payload.
C12_UnwrapRaisesSerialized ==
    \A r \in RequestIds :
        (Unwrapped(r) /\ UncaughtFailure(r))
            => /\ IsFailed(finalAction[r])
               /\ finalAction[r].payload = Undefined
               /\ finalAction[r].error =
                     serializeError(IF Truthy(creatorOutcome[r].value)
                                    THEN creatorOutcome[r].value
                                    ELSE Str("Rejected"))
               /\ unwrapped[r].kind = "throw"
                     => unwrapped[r].value = finalAction[r].error

\* an error object with a numeric code was raised and unwrap() threw
C12_Witness ==
    \E r \in RequestIds :
        /\ Unwrapped(r) /\ UncaughtFailure(r)
        /\ IsErrorObject(creatorOutcome[r].value)
        /\ GetProp(creatorOutcome[r].value, "code").t = "number"
        /\ unwrapped[r].kind = "throw"
        /\ unwrapped[r].value # creatorOutcome[r].value

\* the async body of r reached its end and produced a final action
Finished(r) == finalAction[r] # NoAction

TerminalsOf(r) == Positions(SinkOf(r), IsTerminal)

\* C13: once the body has produced its final action, the handle's promise is
\* fulfilled with that action whether or not it was dispatched: a withheld
\* condition skip is not in the sink and is still the promise's value, and
\* every final action that is not withheld is the one terminal action of
\* the invocation in the sink.
C13_FinalActionReturned ==
    \A r \in RequestIds :
        /\ Settled(r) => Finished(r)
        /\ Finished(r) =>
              /\ promise[r] = Fulfilled(finalAction[r])
              /\ IsTerminal(finalAction[r])
              /\ IF skipDispatch(finalAction[r])
                 THEN /\ ConditionSkipped(finalAction[r])
                      /\ TerminalsOf(r) = {}
                 ELSE /\ TerminalsOf(r) = {Len(SinkOf(r))}
                      /\ SinkOf(r)[Len(SinkOf(r))] = finalAction[r]

\* a condition skip was withheld from the sink and returned by the handle
C13_Witness ==
    \E r \in RequestIds :
        /\ Settled(r)
        /\ ConditionSkipped(promise[r].value)
        /\ skipDispatch(promise[r].value)
        /\ SinkOf(r) = << >>

\* C14: whatever the condition callback and payloadCreator do (return,
\* throw, reject), the handle's promise is never rejected with what they
\* raised: it is fulfilled with a fulfilled or rejected action, and the only
\* rejection there is comes from a sink that throws on the final action.
C14_NoFailureEscapes ==
    \A r \in RequestIds :
        /\ promise[r].state = "fulfilled" => IsTerminal(promise[r].value)
        /\ promise[r].state = "rejected" =>
              /\ sinkThrowsOnFinal
              /\ promise[r].value = SinkError
              /\ Finished(r) /\ ~skipDispatch(finalAction[r])
              /\ SinkOf(r)[Len(SinkOf(r))] = finalAction[r]

\* the condition callback threw and the handle resolved to a rejected action
C14_Witness ==
    \E r \in RequestIds :
        /\ conditionResult[r].kind = "throw"
        /\ Settled(r)
        /\ IsFailed(promise[r].value)
        /\ creatorCalls[r] = 0

Invoked(r) == ~NotInvoked(r)

Context(r) == [requestId |-> r, arg |-> arg[r]]

\* how many actions invocation r has dispatched so far
Dispatched(r) ==
    (IF \E i \in 1..Len(steps[r]) : steps[r][i] = "pending" THEN 1 ELSE 0)
      + (IF Finished(r) /\ ~skipDispatch(finalAction[r]) THEN 1 ELSE 0)

\* C15: the generator is called once for each invocation, also for one the
\* condition skips; the string it returned and the invocation's arg are on
\* the handle, in the thunkAPI given to payloadCreator and in the meta of
\* every action of the invocation, and each invocation finds in the sink,
\* under its own requestId, exactly the actions it dispatched, also when two
\* invocations interleave.
C15_RequestIdAndArgCarried ==
    /\ Len(generated) = Cardinality({r \in RequestIds : Invoked(r)})
    /\ \A r \in RequestIds :
          IF Invoked(r)
          THEN /\ Cardinality(Positions(generated, LAMBDA g : g = r)) = 1
               /\ handle[r] = Context(r)
               /\ creatorCalls[r] > 0 => thunkAPI[r] = Context(r)
               /\ Len(SinkOf(r)) = Dispatched(r)
               /\ \A i \in 1..Len(SinkOf(r)) : SinkOf(r)[i].meta.arg = arg[r]
               /\ Finished(r) => /\ finalAction[r].meta.requestId = r
                                 /\ finalAction[r].meta.arg = arg[r]
          ELSE /\ SinkOf(r) = << >>
               /\ handle[r] = NoHandle

\* two invocations of one orchestrator with different args have settled and
\* their actions interleave in the sink
C15_Witness ==
    /\ \A r \in RequestIds : Settled(r)
    /\ thunkOf["r1"] = thunkOf["r2"]
    /\ arg["r1"] # arg["r2"]
    /\ \E i, j, k \in 1..Len(sink) :
          /\ i < j /\ j < k
          /\ sink[i].meta.requestId = sink[k].meta.requestId
          /\ sink[j].meta.requestId # sink[i].meta.requestId

\* C16: console.info prints the notice of the fallback class at most once,
\* over all abort calls, invocations and orchestrators.
C16_NoticeOncePerProcess == notices <= 1

\* everything an invocation's actions and final action are computed from
outcomeVars ==
    << invocationVars, sink, microtasks, promise, conditionResult, started,
       signal, abortedPromise, creatorOutcome, thenPromise, racePromise,
       raceWinner, finalAction, creatorCalls >>

\* C17: without AbortController no signal is ever aborted, abortedPromise
\* never settles and the race is never won by it, and an abort call changes
\* nothing that the sink's actions or the final action depend on: the
\* behaviour is, step for step, the one without the abort calls.
C17_FallbackAbortInert ==
    /\ [](~hasAbortController =>
            /\ \A r \in RequestIds :
                  /\ ~signal[r].aborted
                  /\ abortedPromise[r].state # "rejected"
                  /\ raceWinner[r] # "abort"
                  /\ abortedAt[r] = NotAborted
            /\ \A i \in 1..Len(microtasks) : microtasks[i].job # "raceAborted")
    /\ [][(~hasAbortController /\ abortCalls' # abortCalls)
            => UNCHANGED outcomeVars]_vars

\* on the fallback, abort was called twice on a started invocation whose
\* payloadCreator has not settled, and the invocation is still pending
C17_Witness ==
    \E r \in RequestIds :
        /\ ~hasAbortController
        /\ abortCalls[r] = 2
        /\ abortReason[r] # Undefined
        /\ started[r]
        /\ creatorOutcome[r].state = "pending"
        /\ promise[r] = Pending
        /\ notices = 1

\* the order of the statements of the try block
TryBlock == ConditionStep \o << "started", "pending", "payloadCreator" >>

IsPrefix(a, b) ==
    Len(a) <= Len(b) /\ \A i \in 1..Len(a) : a[i] = b[i]

Did(r, step) == \E i \in 1..Len(steps[r]) : steps[r][i] = step

\* dispatch(pending) threw: the final action carries the sink's error
SinkThrewOnPending(r) ==
    Finished(r) /\ finalAction[r] = rejected(SinkError, r, arg[r])

AbortedFinal(r) ==
    /\ raceWinner[r] = "abort"
    /\ IsFailed(finalAction[r])
    /\ finalAction[r].meta.aborted

\* C19 as stated: an abort that cancels the signal while the race promise is
\* still pending wins the race.
C19_AbortBeforeRaceResolvedWins ==
    \A r \in RequestIds :
        (Settled(r) /\ abortedAt[r].race = "pending") => AbortedFinal(r)

\* C19: an abort that cancels the signal before the .then callback of the
\* payloadCreator's promise has run wins the race, also when the value was
\* there already (payloadCreator returned it synchronously): the final
\* action is a rejected one with aborted set. An abort that comes after the
\* callback has run loses, also while the race promise is still pending, and
\* one that comes after a synchronous failure finds no race at all.
C19_AbortBeforeThenCallbackWins ==
    \A r \in RequestIds :
        (Settled(r) /\ abortedAt[r] # NotAborted) =>
            CASE abortedAt[r].then = "pending" -> AbortedFinal(r)
              [] abortedAt[r].then = "fulfilled" ->
                   raceWinner[r] = "creator"
                     /\ finalAction[r] = thenPromise[r].value
              [] abortedAt[r].then = "rejected" ->
                   raceWinner[r] = "creator"
                     /\ finalAction[r] = rejected(thenPromise[r].value, r, arg[r])
              [] OTHER -> raceWinner[r] = "none"

\* payloadCreator returned a plain value, abort came before the callback ran
\* and the handle resolved to the aborted action
C19_Witness ==
    \E r \in RequestIds :
        /\ Settled(r)
        /\ creatorOutcome[r] = [state |-> "fulfilled", value |-> Str("ok")]
        /\ abortedAt[r] = [race |-> "pending", then |-> "pending"]
        /\ AbortedFinal(r)
        /\ SinkOf(r) = << pending(r, arg[r]), finalAction[r] >>

\* the rejected actions built so far: the final actions and those in the sink
RejectedActions ==
    {finalAction[r] : r \in {q \in RequestIds : IsFailed(finalAction[q])}}
      \cup {sink[i] : i \in {j \in 1..Len(sink) : IsFailed(sink[j])}}

Flags(action) ==
    {flag \in {"rejectedWithValue", "aborted", "condition"} : action.meta[flag]}

\* C20: every rejected action has at most one of meta.rejectedWithValue,
\* meta.aborted and meta.condition set, and a payload other than undefined
\* only with rejectedWithValue set (RejectWithValue instances keep the name
\* their class gives them).
C20_FlagsExclusive ==
    \A action \in RejectedActions :
        /\ Cardinality(Flags(action)) <= 1
        /\ action.payload # Undefined => action.meta.rejectedWithValue

\* a rejected action made from a RejectWithValue: only that flag, and the
\* payload
C20_Witness ==
    \E action \in RejectedActions :
        /\ Flags(action) = {"rejectedWithValue"}
        /\ action.payload = Num("7")

====
